---- MODULE Spec2Model ----
(***************************************************************************)
(* A model of treatment_evaluation.py: the implant deviation engine        *)
(* (vector math, truncated-cone construction, boolean overlap volume,      *)
(* analyze_implant) and the host operators that drive it.                  *)
(*                                                                         *)
(* Lengths are integers in units of 0.05 mm, so that the host's 0.1 mm     *)
(* minimum separation is 2 units and a separation of 1 unit is "very       *)
(* close" without being zero.  A marker position is a triple of integers.  *)
(* Irrational quantities are kept exact: a length is held as its square,   *)
(* a cosine as numerator over the square of its denominator.               *)
(***************************************************************************)
EXTENDS Integers, Sequences, FiniteSets, TLC

VARIABLES
    single,   \* context.scene.single_implant (SingleImplantProperties)
    slots,    \* context.scene.multiple_implants (sequence of ImplantSlotProperties)
    scene,    \* the objects the engine has put into bpy.data.objects / the collection
    engine,   \* how the mesh library behaves on a degenerate boolean operand pair
    log,      \* history: every analyze_implant call that returned, with its arguments
    last,     \* what the last operator invocation did (return value, reports, exception)
    runs,     \* number of Run operator invocations so far (bounded by MaxRuns)
    probe     \* the last direct call of a pure function (cone / angle specifications)

vars == <<single, slots, scene, engine, log, last, runs, probe>>

\* Python's None where a marker position is expected: the empty tuple.
None == << >>

\* None where an object is expected.
NoObject == <<"None", 0>>

-----------------------------------------------------------------------------
(* Bounds of the model.                                                    *)

MaxSlots == 2
MaxRuns == 2
ConeMaxCoord == 2
AngleMaxCoord == 1
Far == 2000000

-----------------------------------------------------------------------------
(* Exact natural numbers beyond 32 bits: little-endian limbs, base 10^4.   *)
(* Needed because the 1e-6 tolerances compare squares of the order 10^12.  *)

Base == 10000

RECURSIVE BN(_)
BN(n) == IF n = 0 THEN << >> ELSE <<n % Base>> \o BN(n \div Base)

RECURSIVE BNTrim(_)
BNTrim(a) ==
    IF a = << >> THEN << >>
    ELSE IF a[Len(a)] = 0 THEN BNTrim(SubSeq(a, 1, Len(a) - 1))
    ELSE a

RECURSIVE BNAddC(_, _, _)
BNAddC(a, b, c) ==
    IF a = << >> /\ b = << >> THEN (IF c = 0 THEN << >> ELSE <<c>>)
    ELSE LET x == IF a = << >> THEN 0 ELSE Head(a)
             y == IF b = << >> THEN 0 ELSE Head(b)
             s == x + y + c
         IN  <<s % Base>> \o BNAddC(IF a = << >> THEN << >> ELSE Tail(a),
                                    IF b = << >> THEN << >> ELSE Tail(b),
                                    s \div Base)

BNAdd(a, b) == BNTrim(BNAddC(a, b, 0))

RECURSIVE BNMulLimb(_, _, _)
BNMulLimb(a, k, c) ==
    IF a = << >> THEN (IF c = 0 THEN << >> ELSE <<c>>)
    ELSE LET p == Head(a) * k + c
         IN  <<p % Base>> \o BNMulLimb(Tail(a), k, p \div Base)

RECURSIVE BNMul(_, _)
BNMul(a, b) ==
    IF a = << >> \/ b = << >> THEN << >>
    ELSE BNAdd(BNTrim(BNMulLimb(b, Head(a), 0)),
               IF Tail(a) = << >> THEN << >> ELSE <<0>> \o BNMul(Tail(a), b))

RECURSIVE BNLessFrom(_, _, _)
BNLessFrom(a, b, i) ==
    IF i = 0 THEN FALSE
    ELSE IF a[i] # b[i] THEN a[i] < b[i]
    ELSE BNLessFrom(a, b, i - 1)

BNLess(a, b) ==
    IF Len(a) # Len(b) THEN Len(a) < Len(b) ELSE BNLessFrom(a, b, Len(a))

BNLeq(a, b) == ~BNLess(b, a)

RECURSIVE BNToInt(_)
BNToInt(a) == IF a = << >> THEN 0 ELSE Head(a) + Base * BNToInt(Tail(a))

Abs(n) == IF n < 0 THEN -n ELSE n

BNSq(n) == BNMul(BN(Abs(n)), BN(Abs(n)))

-----------------------------------------------------------------------------
(* MATH UTILITIES                                                          *)

Dot(u, v) == u[1] * v[1] + u[2] * v[2] + u[3] * v[3]

Cross(u, v) ==
    <<u[2] * v[3] - u[3] * v[2], u[3] * v[1] - u[1] * v[3], u[1] * v[2] - u[2] * v[1]>>

\* np.array(p2) - np.array(p1)
vector_components(p1, p2) == <<p2[1] - p1[1], p2[2] - p1[2], p2[3] - p1[3]>>

\* The square of np.linalg.norm(v), exact.
NormSq(v) == BNAdd(BNAdd(BNSq(v[1]), BNSq(v[2])), BNSq(v[3]))

\* np.linalg.norm(vector_components(p1, p2)), held as its square.
distance(p1, p2) == NormSq(vector_components(p1, p2))

(* Line 31 is evaluated in floating point: the quotient dot/(|v1||v2|) is   *)
(* the exact value off by err units in the last place (err in -1..1).  A   *)
(* cosine is the record [num, denSq, ulps]: num/sqrt(denSq) + ulps*ulp.    *)
Cosine(num, denSq, ulps) == [num |-> num, denSq |-> denSq, ulps |-> ulps]

AboveOne(c) ==
    \/ c.num > 0 /\ BNLess(c.denSq, BNSq(c.num))
    \/ c.num > 0 /\ BNSq(c.num) = c.denSq /\ c.ulps > 0

BelowMinusOne(c) ==
    \/ c.num < 0 /\ BNLess(c.denSq, BNSq(c.num))
    \/ c.num < 0 /\ BNSq(c.num) = c.denSq /\ c.ulps < 0

InUnitInterval(c) == ~AboveOne(c) /\ ~BelowMinusOne(c)

\* np.clip(c, -1.0, 1.0)
Clip(c) ==
    IF AboveOne(c) THEN Cosine(1, BN(1), 0)
    ELSE IF BelowMinusOne(c) THEN Cosine(-1, BN(1), 0)
    ELSE c

\* math.degrees(math.acos(c)) for c in [-1, 1], kept as the cosine it is the
\* arc cosine of: [1, 1] is 0 degrees, [0, 1] is 90, [-1, 1] is 180.  The last
\* place of c is below what the report prints and is dropped.
AcosDegrees(c) ==
    IF BNSq(c.num) = c.denSq
    THEN [acos_num |-> IF c.num > 0 THEN 1 ELSE -1, acos_denSq |-> BN(1)]
    ELSE IF c.num = 0 THEN [acos_num |-> 0, acos_denSq |-> BN(1)]
    ELSE [acos_num |-> c.num, acos_denSq |-> c.denSq]

ZeroDegrees == [acos_num |-> 1, acos_denSq |-> BN(1)]

\* What is returned when nothing is: nan, or the call raised.
NoAngle == [acos_num |-> 0, acos_denSq |-> << >>]
NoCosine == Cosine(0, << >>, 0)

\* The guard of line 29: norm_v1 == 0 or norm_v2 == 0.
NoNormCheck(n1, n2) == FALSE

ZeroNorm(n1, n2) == n1 = << >> \/ n2 = << >>

\* angle_between_vectors(v1, v2).  ret is the value returned; divided says
\* whether line 31 was evaluated, by_zero whether it divided by a zero norm,
\* acos_arg is what was passed to math.acos, raised whether math.acos raised
\* ValueError (an argument outside [-1, 1]).
angle_between_vectors(v1, v2, err) ==
    LET norm_v1 == NormSq(v1)
        norm_v2 == NormSq(v2)
    IN  IF ZeroNorm(norm_v1, norm_v2)
        THEN [ret |-> ZeroDegrees, divided |-> FALSE, by_zero |-> FALSE,
              acos_arg |-> NoCosine, raised |-> FALSE]
        ELSE LET den == BNMul(norm_v1, norm_v2)
                 cos_theta == Clip(Cosine(Dot(v1, v2), den, err))
                 ok == den # << >> /\ InUnitInterval(cos_theta)
             IN  [ret |-> IF ok THEN AcosDegrees(cos_theta) ELSE NoAngle,
                  divided |-> TRUE, by_zero |-> den = << >>,
                  acos_arg |-> IF den = << >> THEN NoCosine ELSE cos_theta,
                  raised |-> den # << >> /\ ~InUnitInterval(cos_theta)]

\* cylinder_volume(r_top, r_bottom, h): (1/3) * pi * h * (r_top^2 + r_top*r_bottom
\* + r_bottom^2), held exactly as the record [q, hSq] standing for
\* (pi/3) * q * sqrt(hSq); h is passed as its square.
cylinder_volume(r_top, r_bottom, hSq) ==
    [q |-> r_top * r_top + r_top * r_bottom + r_bottom * r_bottom, hSq |-> hSq]

\* planned_vol > 0
Positive(vol) == vol.q > 0 /\ vol.hSq # << >>

-----------------------------------------------------------------------------
(* THE SCENE                                                               *)
(* scene.objects is the set of objects the engine has created and not      *)
(* removed (bpy.data.objects, all of them linked to the collection);       *)
(* scene.active is bpy.context.active_object.  Blender keeps object names  *)
(* unique: a name is <<base, k>>, k = 0 for the bare name, k > 0 for the   *)
(* suffix ".00k" it appends when the bare name is taken.                   *)

EmptyScene == [objects |-> {}, active |-> NoObject]

Names(sc) == {o.name : o \in sc.objects}

UniqueName(sc, base) ==
    <<base, CHOOSE k \in 0..Cardinality(sc.objects) :
                /\ <<base, k>> \notin Names(sc)
                /\ \A j \in 0..(k - 1) : <<base, j>> \in Names(sc)>>

Lookup(sc, name) == CHOOSE o \in sc.objects : o.name = name

\* A new object's rotation: Euler mode, no rotation (angle 0 = acos 1).
NoRotation == [mode |-> "XYZ", angle |-> Cosine(1, BN(1), 0), axis |-> <<0, 0, 0>>]

ConeVertices == 64

\* bpy.ops.mesh.primitive_cone_add(vertices=64, radius1, radius2, depth, location)
\* followed by obj = bpy.context.active_object; obj.name = name.  location2 is
\* twice the location (the midpoint of two integer points).  mesh names the
\* mesh datablock the object uses (objects can share one), data is what that
\* datablock holds: the primitive and the modifiers applied to it since.
primitive_cone_add(sc, name, radius1, radius2, depthSq, location2) ==
    LET obj == [name |-> UniqueName(sc, name),
                location2 |-> location2,
                rotation |-> NoRotation,
                modifiers |-> << >>,
                mesh |-> UniqueName(sc, name),
                data |-> [kind |-> "cone", vertices |-> ConeVertices,
                          radius1 |-> radius1, radius2 |-> radius2,
                          depthSq |-> depthSq, applied |-> << >>]]
    IN  [objects |-> sc.objects \cup {obj}, active |-> obj.name]

SetRotation(sc, name, rot) ==
    [sc EXCEPT !.objects =
        {IF o.name = name THEN [o EXCEPT !.rotation = rot] ELSE o : o \in sc.objects}]

-----------------------------------------------------------------------------
(* MESH-BASED OVERLAP CALCULATION: create_truncated_cone                   *)

up == <<0, 0, 1>>
down == <<0, 0, -1>>

\* atol=1e-6 of the two np.allclose calls, the rtol=1e-5 np.allclose adds by
\* default, and the 1e-6 of "axis_length > 1e-6", each as its reciprocal.
AtolInv == 1000000
RtolInv == 100000
AxisEpsInv == 1000000

\* np.isclose(c/h, b) for one component c of direction, h = sqrt(hSq) > 0 and
\* b in {-1, 0, 1}:  |c/h - b| <= atol + rtol * |b|.
\*   b = 0:  AtolInv * |c| <= h
\*   b # 0:  c has the sign of b (otherwise the difference is at least 1) and
\*           h - |c| <= (1/AtolInv + 1/RtolInv) * h
IsClose(c, hSq, b) ==
    IF b = 0
    THEN BNLeq(BNMul(BNSq(AtolInv), BNSq(c)), hSq)
    ELSE /\ c * b > 0
         /\ BNLeq(BNMul(BNSq(AtolInv - 1 - AtolInv \div RtolInv), hSq),
                  BNMul(BNSq(AtolInv), BNSq(c)))

\* np.allclose(direction_norm, b, atol=1e-6), direction_norm = direction / height
AllClose(direction, hSq, b) == \A i \in 1..3 : IsClose(direction[i], hSq, b[i])

\* axis_length > 1e-6, for axis = np.cross(up, direction_norm): axis_h is
\* height * axis, so axis_length^2 = |axis_h|^2 / hSq.
AxisLongEnoughLoose(axis_h, hSq) ==
    BNLess(BNMul(BNSq(100), hSq), BNMul(BNSq(AxisEpsInv), NormSq(axis_h)))

AxisLongEnough(axis_h, hSq) ==
    BNLess(hSq, BNMul(BNSq(AxisEpsInv), NormSq(axis_h)))

\* Lines 77-99: the rotation that aligns the cone with direction.  The
\* AXIS_ANGLE rotation keeps axis_norm as the integer vector it normalizes
\* (height * axis) and the angle as the cosine it is the arc cosine of
\* (math.pi as the cosine -1).
Align(direction, hSq) ==
    IF AllClose(direction, hSq, up)
    THEN [branch |-> "aligned", rotation |-> NoRotation]
    ELSE IF AllClose(direction, hSq, down)
    THEN [branch |-> "flipped",
          rotation |-> [mode |-> "AXIS_ANGLE", angle |-> Cosine(-1, BN(1), 0),
                        axis |-> <<1, 0, 0>>]]
    ELSE LET axis_h == Cross(up, direction)
         IN  IF AxisLongEnough(axis_h, hSq)
             THEN [branch |-> "rotated",
                   rotation |-> [mode |-> "AXIS_ANGLE",
                                 angle |-> Clip(Cosine(Dot(up, direction), hSq, 0)),
                                 axis |-> axis_h]]
             ELSE [branch |-> "unrotated", rotation |-> NoRotation]

\* height == 0
ZeroHeight(hSq) == hSq = << >>

\* A create_truncated_cone that adds the primitive before it looks at the height.
create_truncated_cone_late_check(sc, name, base_pos, apex_pos, base_radius, apex_radius) ==
    LET direction == vector_components(base_pos, apex_pos)
        height == NormSq(direction)
        center2 == <<base_pos[1] + apex_pos[1], base_pos[2] + apex_pos[2],
                     base_pos[3] + apex_pos[3]>>
        added == primitive_cone_add(sc, name, base_radius, apex_radius, height, center2)
    IN  IF ZeroHeight(height)
        THEN [scene |-> added, obj |-> NoObject, branch |-> "zero_height"]
        ELSE [scene |-> SetRotation(added, added.active, Align(direction, height).rotation),
              obj |-> added.active, branch |-> Align(direction, height).branch]

\* create_truncated_cone(name, base_pos, apex_pos, base_radius, apex_radius) on
\* scene sc: the scene it leaves, the object it returns (None for a zero
\* height) and the branch of the alignment it took.
create_truncated_cone(sc, name, base_pos, apex_pos, base_radius, apex_radius) ==
    LET direction == vector_components(base_pos, apex_pos)
        height == NormSq(direction)
    IN  IF ZeroHeight(height)
        THEN [scene |-> sc, obj |-> NoObject, branch |-> "zero_height"]
        ELSE LET center2 == <<base_pos[1] + apex_pos[1], base_pos[2] + apex_pos[2],
                              base_pos[3] + apex_pos[3]>>
                 added == primitive_cone_add(sc, name, base_radius, apex_radius,
                                             height, center2)
                 aligned == Align(direction, height)
             IN  [scene |-> SetRotation(added, added.active, aligned.rotation),
                  obj |-> added.active, branch |-> aligned.branch]

-----------------------------------------------------------------------------
(* MESH-BASED OVERLAP CALCULATION: boolean_intersection_volume             *)
(*                                                                         *)
(* The mesh library is not part of the program.  A mesh is held as the     *)
(* solid it bounds; the BOOLEAN INTERSECT modifier yields the common part  *)
(* of its operands, and bmesh's calc_volume is measured at lattice         *)
(* resolution: the number of unit cells whose centre lies in the solid.    *)
(* Cell centres have half-integer coordinates, so none lies on a cap plane *)
(* through a marker.  Points are doubled (a "2" suffix) to stay integral.  *)

Isqrt(n) == CHOOSE r \in 0..n : r * r <= n /\ n < (r + 1) * (r + 1)

Scale(v, k) == <<v[1] * k, v[2] * k, v[3] * k>>
Plus(u, v) == <<u[1] + v[1], u[2] + v[2], u[3] + v[3]>>

\* height * (the image of +Z under the object's rotation), for the rotations
\* Align sets: Rodrigues' formula  up*cos + (k x up)*sin + k*(k.up)*(1 - cos)
\* with k = axis/|axis|, cos = angle.num/sqrt(angle.denSq).  The square roots
\* are exact for those rotations (and for an unrotated cone whose height is
\* an integer).
AxisTimesHeight(o) ==
    LET hSq == BNToInt(o.data.depthSq)
        rot == o.rotation
    IN  IF rot.mode = "XYZ" THEN Scale(up, Isqrt(hSq))
        ELSE LET cn == rot.angle.num
                 cd == BNToInt(rot.angle.denSq)
                 k == rot.axis
                 kk == Dot(k, k)
                 m == Isqrt(hSq \div cd)
                 sin_over_k == Isqrt((cd - cn * cn) \div kk)
             IN  Plus(Plus(Scale(up, m * cn), Scale(Cross(k, up), m * sin_over_k)),
                      Scale(k, (Dot(k, up) * (Isqrt(hSq) - m * cn)) \div kk))

\* The solid a cone object occupies in world space: the centres of its two
\* caps (doubled) and the radius at each; radius1 is at the -Z end of the
\* primitive, radius2 at the +Z end.
WorldSolid(o) ==
    LET a == AxisTimesHeight(o)
    IN  [bottom2 |-> Plus(o.location2, Scale(a, -1)),
         top2 |-> Plus(o.location2, a),
         r1 |-> o.data.radius1, r2 |-> o.data.radius2]

\* Whether the point c2/2 lies in solid s.
InSolid(s, c2) ==
    LET D == vector_components(s.bottom2, s.top2)
        DD == Dot(D, D)
        w == vector_components(s.bottom2, c2)
        wD == Dot(w, D)
        R == s.r1 * DD + (s.r2 - s.r1) * wD
    IN  /\ 0 <= wD /\ wD <= DD
        /\ R >= 0
        /\ (Dot(w, w) * DD - wD * wD) * DD <= 4 * R * R

Min(a, b) == IF a < b THEN a ELSE b
Max(a, b) == IF a > b THEN a ELSE b

\* The cell centres (doubled) of a box around solid s.
Cells(s) ==
    LET r == 2 * Max(s.r1, s.r2)
        lo(i) == (Min(s.bottom2[i], s.top2[i]) - r) \div 2
        hi(i) == (Max(s.bottom2[i], s.top2[i]) + r) \div 2
    IN  {<<2 * x + 1, 2 * y + 1, 2 * z + 1>> :
            x \in lo(1)..hi(1), y \in lo(2)..hi(2), z \in lo(3)..hi(3)}

\* bm.calc_volume() of a closed mesh bounding the common part of solid a and
\* every solid of bs.
CommonVolume(a, bs) ==
    Cardinality({c \in Cells(a) : InSolid(a, c) /\ \A b \in bs : InSolid(b, c)})

\* A degenerate operand pair: an operand without volume (both radii zero), or
\* parallel axes with a cap of one in the plane of a cap of the other
\* (coincident faces).
Degenerate(a, b) ==
    LET Da == vector_components(a.bottom2, a.top2)
        Db == vector_components(b.bottom2, b.top2)
    IN  \/ a.r1 = 0 /\ a.r2 = 0
        \/ b.r1 = 0 /\ b.r2 = 0
        \/ /\ Cross(Da, Db) = <<0, 0, 0>>
           /\ \E p \in {a.bottom2, a.top2}, q \in {b.bottom2, b.top2} :
                 Dot(vector_components(p, q), Da) = 0

\* What bpy.ops.object.modifier_apply does on a degenerate pair is the mesh
\* library's business: it computes the intersection all the same ("exact"),
\* raises RuntimeError ("raises"), or leaves a mesh that is not closed
\* ("open").  On any other pair it computes the intersection.
Engines == {"exact", "raises", "open"}

ApplyOutcome(eng, a, b) == IF Degenerate(a, b) THEN eng ELSE "exact"

\* obj.copy() alone: the copy uses the mesh datablock of the original.
CopyObjectSharingData(sc, name) ==
    LET copy == [Lookup(sc, name) EXCEPT !.name = UniqueName(sc, name[1])]
    IN  [scene |-> [sc EXCEPT !.objects = @ \cup {copy}], obj |-> copy.name]

\* obj.copy(); copy.data = obj.data.copy(); collection.objects.link(copy):
\* the copy has a mesh datablock of its own, with the same content.
CopyObject(sc, name) ==
    LET copy == [Lookup(sc, name) EXCEPT !.name = UniqueName(sc, name[1]),
                                         !.mesh = UniqueName(sc, name[1])]
    IN  [scene |-> [sc EXCEPT !.objects = @ \cup {copy}], obj |-> copy.name]

\* bpy.ops.object.modifier_apply(modifier=mod.name) on the active object obj:
\* the modifier leaves the object's stack and its result replaces the content
\* of the object's mesh datablock, for every object that uses that datablock.
ModifierApply(sc, obj, mod) ==
    LET mesh == Lookup(sc, obj).mesh
    IN  [sc EXCEPT !.objects =
            {[o EXCEPT !.modifiers = IF o.name = obj THEN << >> ELSE @,
                       !.data = IF o.mesh = mesh
                                THEN [@ EXCEPT !.applied = Append(@, mod)]
                                ELSE @] : o \in sc.objects}]

\* bpy.data.objects.remove(obj, do_unlink=True); removing the active object
\* leaves no active object.
RemoveObject(sc, name) ==
    [objects |-> {o \in sc.objects : o.name # name},
     active |-> IF sc.active = name THEN NoObject ELSE sc.active]

\* mod.object = b_copy: the objects the modifier intersects bool_obj with.
WholeCollection(sc, bool_obj, b_copy) == Names(sc) \ {bool_obj}

BooleanOperands(sc, bool_obj, b_copy) == {b_copy}

\* The clean-up of lines 137-140.
CleanUp(sc, a_copy, b_copy, bool_obj) ==
    RemoveObject(RemoveObject(RemoveObject(sc, a_copy), b_copy), bool_obj)

\* boolean_intersection_volume(obj_a, obj_b) on scene sc under engine eng: the
\* scene it leaves, whether modifier_apply raised, and the volume returned.
boolean_intersection_volume(sc, obj_a, obj_b, eng) ==
    LET ca == CopyObject(sc, obj_a)
        cb == CopyObject(ca.scene, obj_b)
        cc == CopyObject(cb.scene, ca.obj)
        a_copy == ca.obj
        b_copy == cb.obj
        bool_obj == cc.obj
        mod == [type |-> "BOOLEAN", name |-> "Intersect", operation |-> "INTERSECT",
                object |-> b_copy]
        sc_mod == [objects |-> {IF o.name = bool_obj
                                THEN [o EXCEPT !.modifiers = Append(@, mod)]
                                ELSE o : o \in cc.scene.objects},
                   active |-> bool_obj]
        solid_a == WorldSolid(Lookup(sc_mod, bool_obj))
        operands == {WorldSolid(Lookup(sc_mod, n)) :
                        n \in BooleanOperands(sc_mod, bool_obj, b_copy)}
        outcome == ApplyOutcome(eng, solid_a, WorldSolid(Lookup(sc_mod, b_copy)))
        volume == IF outcome = "open" THEN CommonVolume(solid_a, {})
                  ELSE CommonVolume(solid_a, operands)
    IN  IF outcome = "raises"
        THEN [scene |-> sc_mod, raised |-> TRUE, volume |-> 0, outcome |-> outcome]
        ELSE [scene |-> CleanUp(ModifierApply(sc_mod, bool_obj, mod),
                                a_copy, b_copy, bool_obj),
              raised |-> FALSE, volume |-> Abs(volume), outcome |-> outcome]

-----------------------------------------------------------------------------
(* OPERATORS: analyze_implant                                              *)

\* 100.0 * overlap_vol / planned_vol, exact: the quotient num / den, den a
\* volume as cylinder_volume returns it; a zero numerator gives 0.0.
ZeroPercent == [num |-> 0, den |-> [q |-> 1, hSq |-> BN(1)]]

Quotient(num, den) == IF num = 0 THEN ZeroPercent ELSE [num |-> num, den |-> den]

\* The guard of line 216: planned_vol > 0.
Unguarded(planned_vol) == TRUE

NonZeroDenominator(planned_vol) == Positive(planned_vol)

\* The report analyze_implant formats: the seven values of its result string.
Report(base_dev_vec, base_dev_dist, apex_dev_vec, apex_dev_dist, ang_dev, overlap_vol, overlap_pct) ==
    [base_dev_vec |-> base_dev_vec, base_dev_dist |-> base_dev_dist,
     apex_dev_vec |-> apex_dev_vec, apex_dev_dist |-> apex_dev_dist,
     ang_dev |-> ang_dev, overlap_vol |-> overlap_vol, overlap_pct |-> overlap_pct]

NoReport ==
    Report(<<0, 0, 0>>, << >>, <<0, 0, 0>>, << >>, NoAngle, 0, ZeroPercent)

\* Line 203: the real cone, built in the scene the planned cone left.
real_cone(rb, ra, r_rbot, r_rtop, planned) ==
    [planned_obj |-> planned.obj,
     real |-> create_truncated_cone(planned.scene, "RealImplantTemp", rb, ra,
                                    r_rbot, r_rtop)]

\* Lines 206-212: the overlap volume if both cones were built, else 0.
overlap_of(eng, cones) ==
    [planned_obj |-> cones.planned_obj, real_obj |-> cones.real.obj,
     biv |-> IF cones.planned_obj # NoObject /\ cones.real.obj # NoObject
             THEN boolean_intersection_volume(cones.real.scene, cones.planned_obj,
                                              cones.real.obj, eng)
             ELSE [scene |-> cones.real.scene, raised |-> FALSE, volume |-> 0,
                   outcome |-> "skipped"]]

\* Lines 214-227: the percentage and the formatted result.
format_result(sc, pb, pa, rb, ra, r_ptop, r_pbot, ang, o) ==
    LET base_dev_vec == vector_components(pb, rb)
        apex_dev_vec == vector_components(pa, ra)
        planned_vol == cylinder_volume(r_ptop, r_pbot, distance(pb, pa))
        divided == NonZeroDenominator(planned_vol)
        trace == [planned_built |-> o.planned_obj # NoObject,
                  real_built |-> o.real_obj # NoObject,
                  boolean |-> o.biv.outcome, divided |-> divided,
                  by_zero |-> divided /\ ~Positive(planned_vol)]
    IN  IF ang.raised
        THEN [scene |-> sc, raised |-> TRUE, kind |-> "none", ret |-> NoReport,
              trace |-> [planned_built |-> FALSE, real_built |-> FALSE,
                         boolean |-> "skipped", divided |-> FALSE, by_zero |-> FALSE]]
        ELSE IF o.biv.raised
        THEN [scene |-> o.biv.scene, raised |-> TRUE, kind |-> "none", ret |-> NoReport,
              trace |-> [trace EXCEPT !.divided = FALSE, !.by_zero = FALSE]]
        ELSE [scene |-> o.biv.scene, raised |-> FALSE, kind |-> "report",
              ret |-> Report(base_dev_vec, NormSq(base_dev_vec),
                             apex_dev_vec, NormSq(apex_dev_vec), ang.ret,
                             o.biv.volume,
                             IF divided THEN Quotient(100 * o.biv.volume, planned_vol)
                             ELSE ZeroPercent),
              trace |-> trace]

\* analyze_implant(pb, pa, rb, ra, r_ptop, r_pbot, r_rtop, r_rbot) on scene sc
\* under engine eng, err the rounding error of the cosine.  raised: an
\* exception left the function (no value returned); otherwise ret is the
\* value returned, of kind "report" (the formatted string: the function
\* has no other kind of return value).  The trace records what the call
\* did on the way: which cones it built, how the boolean ended, whether it
\* divided and whether by zero.
analyze_implant(sc, eng, pb, pa, rb, ra, r_ptop, r_pbot, r_rtop, r_rbot, err) ==
    format_result(sc, pb, pa, rb, ra, r_ptop, r_pbot,
                  angle_between_vectors(vector_components(pb, pa),
                                        vector_components(rb, ra), err),
                  overlap_of(eng,
                      real_cone(rb, ra, r_rbot, r_rtop,
                          create_truncated_cone(sc, "PlannedImplantTemp", pb, pa,
                                                r_pbot, r_ptop))))

-----------------------------------------------------------------------------
(* PROPERTY GROUPS                                                         *)

\* FloatProperty(default=2.0): 2.0 mm in units of 0.05 mm.
DefaultRadius == 40

\* A result string: "" (empty), the report of analyze_implant, "Error: Select
\* all 4 spheres for implant {i+1}." or "Warning: Very close spheres in
\* implant {i+1}" (implant = i+1).
Result(kind, implant, report) == [kind |-> kind, implant |-> implant, report |-> report]

NoResult == Result("empty", 0, NoReport)

\* SingleImplantProperties / ImplantSlotProperties as registered: no marker
\* selected, the default radii, result "".
DefaultProps ==
    [planned_base |-> None, planned_apex |-> None,
     real_base |-> None, real_apex |-> None,
     r_planned_top |-> DefaultRadius, r_planned_bottom |-> DefaultRadius,
     r_real_top |-> DefaultRadius, r_real_bottom |-> DefaultRadius,
     result |-> NoResult]

\* What the last operator call did: its bl_idname, the set it returned,
\* the exception that left execute (if any), its self.report calls, its
\* implant_index, len(multiple_implants) when it was called and the slots
\* (1-based) whose result it assigned.
Outcome(op, ret, exception, reports, index, len, wrote) ==
    [op |-> op, ret |-> ret, exception |-> exception, reports |-> reports,
     index |-> index, len |-> len, wrote |-> wrote]

\* No operator has been called since the scene was registered or last edited.
Idle == Outcome("none", "none", "none", {}, 0, 0, {})

-----------------------------------------------------------------------------
(* OPERATORS of the panel                                                  *)

\* all([props.planned_base, props.planned_apex, props.real_base, props.real_apex])
AllSelected(props) ==
    /\ props.planned_base # None
    /\ props.planned_apex # None
    /\ props.real_base # None
    /\ props.real_apex # None

\* min_distance = 0.1 (mm), in units of 0.05 mm.
min_distance == 2

\* np.linalg.norm(b - a) < min_distance
VeryClose(a, b) == BNLess(distance(a, b), BNSq(min_distance))

\* np.allclose(p, [0, 0, 0], atol=0.1): the reference is 0, so rtol adds nothing.
AtOrigin(p) == \A i \in 1..3 : Abs(p[i]) <= min_distance

\* The record of one analyze_implant call that returned: its arguments, the
\* objects the scene held when it was called, and what it returned.
Entry(sc, props, a) ==
    [before |-> Names(sc),
     args |-> <<props.planned_base, props.planned_apex, props.real_base,
                props.real_apex, props.r_planned_top, props.r_planned_bottom,
                props.r_real_top, props.r_real_bottom>>,
     kind |-> a.kind, ret |-> a.ret, trace |-> a.trace]

\* analyze_implant on the markers and radii of one property group.
Analyze(sc, eng, props, err) ==
    analyze_implant(sc, eng, props.planned_base, props.planned_apex,
                    props.real_base, props.real_apex,
                    props.r_planned_top, props.r_planned_bottom,
                    props.r_real_top, props.r_real_bottom, err)

\* The self.report calls of lines 258-263 and 314-317.
DistanceWarnings(props) ==
    (IF VeryClose(props.planned_base, props.planned_apex)
     THEN {<<"WARNING", "planned close">>} ELSE {})
    \cup
    (IF VeryClose(props.real_base, props.real_apex)
     THEN {<<"WARNING", "real close">>} ELSE {})

OriginWarning(props) ==
    IF AtOrigin(props.planned_base) /\ AtOrigin(props.planned_apex)
    THEN {<<"WARNING", "at origin">>} ELSE {}

\* bpy_prop_collection[index] for a Python index: negative indices count
\* from the end; 0 stands for "out of range" (IndexError).
Position(index, len) ==
    IF 0 <= index /\ index < len THEN index + 1
    ELSE IF index < 0 /\ -index <= len THEN len + index + 1
    ELSE 0

\* implants.remove(index): the slots after it move up.
RemoveAt(s, k) == [i \in 1..(Len(s) - 1) |-> IF i < k THEN s[i] ELSE s[i + 1]]

\* The rounding error of the cosine of line 31, in ulps.
Ulps == {-1, 0, 1}

\* Whether np.linalg.norm(v) is computed without rounding: |v| is an integer.
ExactNorm(v) ==
    LET n == BNToInt(NormSq(v)) IN Isqrt(n) * Isqrt(n) = n

\* The rounding errors line 31 can make on the markers of a property group.
\* With both norms exact the quotient is correctly rounded and cannot leave
\* [-1, 1]; the analysis then is the one of err = 0.
Roundings(props) ==
    IF /\ AllSelected(props)
       /\ ~ExactNorm(vector_components(props.planned_base, props.planned_apex))
          \/ ~ExactNorm(vector_components(props.real_base, props.real_apex))
    THEN Ulps ELSE {0}

\* The loop of RunMultipleImplants.execute from slot i (1-based) on: the
\* scene, slots and log it leaves, the slots it assigned, and whether an
\* exception of analyze_implant ended it.
RECURSIVE RunLoop(_, _, _, _, _, _, _)

\* Lines 355-357 for slot i, a the analyze_implant call, then the rest of the loop.
LoopAnalysed(sc, sl, lg, wrote, i, eng, err, a) ==
    IF a.raised
    THEN [scene |-> a.scene, slots |-> sl, log |-> lg, wrote |-> wrote, raised |-> TRUE]
    ELSE RunLoop(a.scene, [sl EXCEPT ![i].result = Result("report", 0, a.ret)],
                 lg \cup {Entry(sc, sl[i], a)}, wrote \cup {i}, i + 1, eng, err)

RunLoop(sc, sl, lg, wrote, i, eng, err) ==
    IF i > Len(sl)
    THEN [scene |-> sc, slots |-> sl, log |-> lg, wrote |-> wrote, raised |-> FALSE]
    ELSE IF ~AllSelected(sl[i])
    THEN RunLoop(sc, [sl EXCEPT ![i].result = Result("error_select", i, NoReport)],
                 lg, wrote \cup {i}, i + 1, eng, err)
    ELSE IF \/ VeryClose(sl[i].planned_base, sl[i].planned_apex)
            \/ VeryClose(sl[i].real_base, sl[i].real_apex)
    THEN RunLoop(sc, [sl EXCEPT ![i].result = Result("warning_close", i, NoReport)],
                 lg, wrote \cup {i}, i + 1, eng, err)
    ELSE LoopAnalysed(sc, sl, lg, wrote, i, eng, err,
                      Analyze(sc, eng, sl[i],
                              IF err \in Roundings(sl[i]) THEN err ELSE 0))

-----------------------------------------------------------------------------
(* Spec: the panel.  The user adds and removes slots, picks markers and    *)
(* radii in a property group, and presses the three Run buttons.           *)

\* A property group as the user fills it in: the four marker centres and
\* the radii top, bottom of the planned and of the real implant.
Filled(pb, pa, rb, ra, planned_radii, real_radii) ==
    [DefaultProps EXCEPT !.planned_base = pb, !.planned_apex = pa,
                         !.real_base = rb, !.real_apex = ra,
                         !.r_planned_top = planned_radii[1],
                         !.r_planned_bottom = planned_radii[2],
                         !.r_real_top = real_radii[1],
                         !.r_real_bottom = real_radii[2]]

Identical    == Filled(<<0, 0, 0>>, <<0, 0, 2>>, <<0, 0, 0>>, <<0, 0, 2>>, <<1, 1>>, <<1, 1>>)
Tilted       == Filled(<<0, 0, 0>>, <<0, 0, 2>>, <<0, 0, -1>>, <<1, 0, 2>>, <<0, 1>>, <<1, 1>>)
Apart        == Filled(<<0, 0, 0>>, <<0, 0, 2>>, <<4, 0, 1>>, <<4, 0, 3>>, <<0, 1>>, <<1, 1>>)
PlannedFlat  == Filled(<<0, 0, 1>>, <<0, 0, 1>>, <<0, 0, 0>>, <<0, 0, 2>>, <<1, 1>>, <<1, 1>>)
PlannedShort == Filled(<<0, 0, 0>>, <<0, 0, 1>>, <<0, 0, 0>>, <<0, 0, 2>>, <<1, 1>>, <<1, 1>>)
NoRadius     == Filled(<<0, 0, 0>>, <<0, 0, 2>>, <<0, 0, -1>>, <<0, 0, 3>>, <<0, 0>>, <<1, 1>>)

SlotConfigs == {Tilted, Apart, PlannedShort}
SingleConfigs == {Identical, PlannedFlat, NoRadius}

\* implant_index as the panel or a script passes it.
Indices == (-MaxSlots)..MaxSlots

Untouched(props) ==
    /\ props.planned_base = None
    /\ props.planned_apex = None
    /\ props.real_base = None
    /\ props.real_apex = None

\* After register(): no slot, the single group at its defaults, nothing of
\* the add-on in the scene.
Init ==
    /\ single = DefaultProps
    /\ slots = << >>
    /\ scene = EmptyScene
    /\ engine \in Engines
    /\ log = {}
    /\ last = Idle
    /\ runs = 0
    /\ probe = [stage |-> "none"]

\* The user picks markers and radii in the single-implant panel; in this
\* model the markers of a group are picked once, before the first Run.
SetSingle(cfg) ==
    /\ runs = 0
    /\ Untouched(single)
    /\ single' = [cfg EXCEPT !.result = single.result]
    /\ last' = Idle
    /\ UNCHANGED <<slots, scene, engine, log, runs, probe>>

\* The user picks markers and radii in the box of slot i.
SetSlot(i, cfg) ==
    /\ i \in 1..Len(slots)
    /\ runs = 0
    /\ Untouched(slots[i])
    /\ slots' = [slots EXCEPT ![i] = [cfg EXCEPT !.result = slots[i].result]]
    /\ last' = Idle
    /\ UNCHANGED <<single, scene, engine, log, runs, probe>>

AddImplant ==
    /\ Len(slots) < MaxSlots
    /\ slots' = Append(slots, DefaultProps)
    /\ last' = Outcome("add_implant", "FINISHED", "none", {}, 0, Len(slots), {})
    /\ UNCHANGED <<single, scene, engine, log, runs, probe>>

RemoveImplant(implant_index) ==
    /\ IF 0 <= implant_index /\ implant_index < Len(slots)
       THEN /\ slots' = RemoveAt(slots, implant_index + 1)
            /\ last' = Outcome("remove_implant", "FINISHED", "none",
                               {<<"INFO", "removed">>}, implant_index, Len(slots), {})
       ELSE /\ slots' = slots
            /\ last' = Outcome("remove_implant", "FINISHED", "none",
                               {<<"ERROR", "invalid index">>}, implant_index,
                               Len(slots), {})
    /\ UNCHANGED <<single, scene, engine, log, runs, probe>>

\* Lines 265-268, a the analyze_implant call.
SingleAnalysed(reports, a) ==
    /\ scene' = a.scene
    /\ IF a.raised
       THEN /\ last' = Outcome("run_single_implant", "none", "RuntimeError",
                               reports, 0, Len(slots), {})
            /\ UNCHANGED <<single, log>>
       ELSE /\ single' = [single EXCEPT !.result = Result("report", 0, a.ret)]
            /\ log' = log \cup {Entry(scene, single, a)}
            /\ last' = Outcome("run_single_implant", "FINISHED", "none",
                               reports, 0, Len(slots), {})

RunSingleImplant(err) ==
    /\ runs < MaxRuns
    /\ err \in Roundings(single)
    /\ runs' = runs + 1
    /\ IF ~AllSelected(single)
       THEN /\ last' = Outcome("run_single_implant", "CANCELLED", "none",
                               {<<"ERROR", "select">>}, 0, Len(slots), {})
            /\ UNCHANGED <<single, scene, log>>
       ELSE SingleAnalysed(DistanceWarnings(single) \cup OriginWarning(single),
                           Analyze(scene, engine, single, err))
    /\ UNCHANGED <<slots, engine, probe>>

\* Lines 319-322, a the analyze_implant call on slot pos (1-based).
SlotAnalysed(implant_index, pos, reports, a) ==
    /\ scene' = a.scene
    /\ IF a.raised
       THEN /\ last' = Outcome("run_single_implant_slot", "none", "RuntimeError",
                               reports, implant_index, Len(slots), {})
            /\ UNCHANGED <<slots, log>>
       ELSE /\ slots' = [slots EXCEPT ![pos].result = Result("report", 0, a.ret)]
            /\ log' = log \cup {Entry(scene, slots[pos], a)}
            /\ last' = Outcome("run_single_implant_slot", "FINISHED", "none",
                               reports, implant_index, Len(slots), {pos})

RunSingleImplantSlot(implant_index, err) ==
    /\ runs < MaxRuns
    /\ err \in IF Position(implant_index, Len(slots)) = 0 THEN {0}
               ELSE Roundings(slots[Position(implant_index, Len(slots))])
    /\ runs' = runs + 1
    /\ LET len == Len(slots)
           pos == Position(implant_index, len)
       IN  IF implant_index >= len
           THEN /\ last' = Outcome("run_single_implant_slot", "CANCELLED", "none",
                                   {<<"ERROR", "invalid index">>}, implant_index, len, {})
                /\ UNCHANGED <<slots, scene, log>>
           ELSE IF pos = 0
           THEN /\ last' = Outcome("run_single_implant_slot", "none", "IndexError",
                                   {}, implant_index, len, {})
                /\ UNCHANGED <<slots, scene, log>>
           ELSE IF ~AllSelected(slots[pos])
           THEN /\ last' = Outcome("run_single_implant_slot", "CANCELLED", "none",
                                   {<<"ERROR", "select">>}, implant_index, len, {})
                /\ UNCHANGED <<slots, scene, log>>
           ELSE SlotAnalysed(implant_index, pos, DistanceWarnings(slots[pos]),
                             Analyze(scene, engine, slots[pos], err))
    /\ UNCHANGED <<single, engine, probe>>

\* The state RunMultipleImplants.execute leaves, r the outcome of its loop.
LoopDone(r) ==
    /\ scene' = r.scene
    /\ slots' = r.slots
    /\ log' = r.log
    /\ last' = Outcome("run_multiple_implants",
                       IF r.raised THEN "none" ELSE "FINISHED",
                       IF r.raised THEN "RuntimeError" ELSE "none",
                       {}, 0, Len(slots), r.wrote)

RunMultipleImplants(err) ==
    /\ runs < MaxRuns
    /\ err \in {0} \cup UNION {Roundings(slots[i]) : i \in 1..Len(slots)}
    /\ runs' = runs + 1
    /\ LoopDone(RunLoop(scene, slots, log, {}, 1, engine, err))
    /\ UNCHANGED <<single, engine, probe>>

Next ==
    \/ \E cfg \in SingleConfigs : SetSingle(cfg)
    \/ \E i \in 1..MaxSlots, cfg \in SlotConfigs : SetSlot(i, cfg)
    \/ AddImplant
    \/ \E implant_index \in Indices : RemoveImplant(implant_index)
    \/ \E err \in Ulps : RunSingleImplant(err)
    \/ \E implant_index \in Indices, err \in Ulps : RunSingleImplantSlot(implant_index, err)
    \/ \E err \in Ulps : RunMultipleImplants(err)

Spec == Init /\ [][Next]_vars

-----------------------------------------------------------------------------
(* SpecCone: create_truncated_cone called directly, on an empty scene and   *)
(* on one that holds a cone of an earlier call, for directions that        *)
(* include ones within and just outside the 1e-6 tolerances.               *)

ConeCoords == (-ConeMaxCoord..ConeMaxCoord) \cup {-Far, Far}
ConePoints == {<<x, y, z>> : x \in ConeCoords, y \in ConeCoords, z \in ConeCoords}
ConeBases == {<<0, 0, 0>>, <<1, 0, 1>>}
ConeRadii == {<<0, 0>>, <<1, 2>>, <<2, 2>>}

LeftoverScene ==
    create_truncated_cone(EmptyScene, "PlannedImplantTemp",
                          <<0, 0, 0>>, <<0, 0, 2>>, 2, 2).scene

InitCone ==
    /\ single = DefaultProps
    /\ slots = << >>
    /\ scene \in {EmptyScene, LeftoverScene}
    /\ engine = "exact"
    /\ log = {}
    /\ last = Idle
    /\ runs = 0
    /\ \E base \in ConeBases, apex \in ConePoints, radii \in ConeRadii :
          probe = [stage |-> "in", base |-> base, apex |-> apex, radii |-> radii,
                   before |-> scene, obj |-> NoObject, branch |-> "none"]

ConeCall ==
    /\ probe.stage = "in"
    /\ LET r == create_truncated_cone(scene, "PlannedImplantTemp", probe.base,
                                      probe.apex, probe.radii[1], probe.radii[2])
       IN  /\ scene' = r.scene
           /\ probe' = [probe EXCEPT !.stage = "out", !.obj = r.obj, !.branch = r.branch]
    /\ UNCHANGED <<single, slots, engine, log, last, runs>>

NextCone == ConeCall

SpecCone == InitCone /\ [][NextCone]_vars

-----------------------------------------------------------------------------
(* SpecAngle: angle_between_vectors called directly on every pair of small  *)
(* integer vectors, the zero vector included, under each rounding error.   *)

AngleCoords == -AngleMaxCoord..AngleMaxCoord
AngleVectors == {<<x, y, z>> : x \in AngleCoords, y \in AngleCoords, z \in AngleCoords}

InitAngle ==
    /\ single = DefaultProps
    /\ slots = << >>
    /\ scene = EmptyScene
    /\ engine = "exact"
    /\ log = {}
    /\ last = Idle
    /\ runs = 0
    /\ \E v1 \in AngleVectors, v2 \in AngleVectors, err \in -1..1 :
          probe = [stage |-> "in", v1 |-> v1, v2 |-> v2, err |-> err,
                   res |-> [ret |-> NoAngle, divided |-> FALSE, by_zero |-> FALSE,
                            acos_arg |-> NoCosine, raised |-> FALSE]]

AngleCall ==
    /\ probe.stage = "in"
    /\ probe' = [probe EXCEPT !.stage = "out",
                              !.res = angle_between_vectors(probe.v1, probe.v2, probe.err)]
    /\ UNCHANGED <<single, slots, scene, engine, log, last, runs>>

NextAngle == AngleCall

SpecAngle == InitAngle /\ [][NextAngle]_vars

-----------------------------------------------------------------------------
(* SpecBoolean: boolean_intersection_volume called directly on two cones   *)
(* of a scene (in either order, or one cone twice), with and without a     *)
(* third object around, under each behaviour of the mesh library.          *)

BoolMaxCoord == 1

BoolBases == {<<0, 0, 0>>, <<0, 0, -1>>, <<4, 0, 0>>}
BoolDirections ==
    {<<x, y, 2>> : x \in (-BoolMaxCoord)..BoolMaxCoord,
                   y \in (-BoolMaxCoord)..BoolMaxCoord}
BoolRadii == {<<1, 1>>, <<1, 0>>}

\* The scene analyze_implant hands over: a planned cone, then a real one.
TwoCones(sc, rb, ra, radii) ==
    create_truncated_cone(
        create_truncated_cone(sc, "PlannedImplantTemp",
                              <<0, 0, 0>>, <<0, 0, 2>>, 1, 1).scene,
        "RealImplantTemp", rb, ra, radii[1], radii[2]).scene

NoVolume == [raised |-> FALSE, volume |-> 0, outcome |-> "none"]

InitBoolean ==
    /\ single = DefaultProps
    /\ slots = << >>
    /\ engine \in Engines
    /\ log = {}
    /\ last = Idle
    /\ runs = 0
    /\ \E sc \in {EmptyScene, LeftoverScene}, rb \in BoolBases,
          d \in BoolDirections, radii \in BoolRadii :
          scene = TwoCones(sc, rb, Plus(rb, d), radii)
    /\ \E obj_a \in Names(scene), obj_b \in Names(scene) :
          probe = [stage |-> "in", obj_a |-> obj_a, obj_b |-> obj_b,
                   before |-> scene, res |-> NoVolume]

\* The call, r what it returns and leaves.
BooleanReturned(r) ==
    /\ scene' = r.scene
    /\ probe' = [probe EXCEPT !.stage = "out",
                              !.res = [raised |-> r.raised, volume |-> r.volume,
                                       outcome |-> r.outcome]]

BooleanCall ==
    /\ probe.stage = "in"
    /\ BooleanReturned(boolean_intersection_volume(scene, probe.obj_a, probe.obj_b,
                                                   engine))
    /\ UNCHANGED <<single, slots, engine, log, last, runs>>

NextBoolean == BooleanCall

SpecBoolean == InitBoolean /\ [][NextBoolean]_vars

-----------------------------------------------------------------------------
(* Properties of create_truncated_cone and angle_between_vectors.          *)

ProbeDirection == vector_components(probe.base, probe.apex)

\* C3: for every input with base equal to apex, create_truncated_cone returns
\* None (the zero-height outcome) and leaves the scene exactly as it found it:
\* no object is added before the height is checked, whatever the radii.
C3_ZeroHeightBuildsNothing ==
    (probe.stage = "out" /\ probe.base = probe.apex)
        => /\ probe.obj = NoObject
           /\ probe.branch = "zero_height"
           /\ scene = probe.before

C3_Witness ==
    /\ probe.stage = "out"
    /\ probe.base = probe.apex
    /\ probe.radii = <<1, 2>>
    /\ probe.before = LeftoverScene
    /\ scene = LeftoverScene

\* The claim's reading of the rotation cases: the unit direction is within
\* 1e-6 of the axis b in every component.
SpecTolInv == 1000000

WithinTolerance(direction, b) ==
    \A i \in 1..3 :
        IF b[i] = 0
        THEN BNLeq(BNMul(BNSq(SpecTolInv), BNSq(direction[i])), NormSq(direction))
        ELSE /\ direction[i] * b[i] > 0
             /\ BNLeq(BNMul(BNSq(SpecTolInv - 1), NormSq(direction)),
                      BNMul(BNSq(SpecTolInv), BNSq(direction[i])))

\* C9: for every frustum with height > 0 exactly one rotation case is applied:
\* identity when the unit direction is within 1e-6 of +Z, a 180-degree rotation
\* about X when it is within 1e-6 of -Z, and otherwise a rotation about the
\* cross product of +Z and the direction by acos(clip(dot)); the object is
\* never left unrotated outside the two tolerance cases.
C9_ExactlyOneRotationCase ==
    (probe.stage = "out" /\ probe.base # probe.apex)
        => LET d == ProbeDirection
               rot == Lookup(scene, probe.obj).rotation
           IN  /\ probe.obj # NoObject
               /\ probe.branch \in {"aligned", "flipped", "rotated"}
               /\ WithinTolerance(d, up)
                    => probe.branch = "aligned" /\ rot = NoRotation
               /\ (~WithinTolerance(d, up) /\ WithinTolerance(d, down))
                    => /\ probe.branch = "flipped"
                       /\ rot = [mode |-> "AXIS_ANGLE", angle |-> Cosine(-1, BN(1), 0),
                                 axis |-> <<1, 0, 0>>]
               /\ (~WithinTolerance(d, up) /\ ~WithinTolerance(d, down))
                    => /\ probe.branch = "rotated"
                       /\ rot.mode = "AXIS_ANGLE"
                       /\ rot.axis = Cross(up, d)
                       /\ rot.axis # <<0, 0, 0>>
                       /\ rot.angle = Cosine(d[3], NormSq(d), 0)

\* A direction 1.5e-6 off the axis: outside the tolerance, and rotated.
C9_Witness ==
    /\ probe.stage = "out"
    /\ probe.branch = "rotated"
    /\ Abs(ProbeDirection[3]) >= Far - ConeMaxCoord
    /\ Abs(ProbeDirection[1]) + Abs(ProbeDirection[2]) <= ConeMaxCoord + 1

\* C8: angle_between_vectors returns 0.0 whenever either vector has zero
\* length, without evaluating the division and without raising, whatever the
\* other vector; for non-zero vectors the value passed to acos is in [-1, 1].
C8_DegenerateAngleIsZero ==
    probe.stage = "out"
        => /\ (probe.v1 = <<0, 0, 0>> \/ probe.v2 = <<0, 0, 0>>)
                => /\ probe.res.ret = ZeroDegrees
                   /\ ~probe.res.divided
                   /\ ~probe.res.by_zero
                   /\ ~probe.res.raised
           /\ (probe.v1 # <<0, 0, 0>> /\ probe.v2 # <<0, 0, 0>>)
                => /\ probe.res.divided
                   /\ ~probe.res.by_zero
                   /\ ~probe.res.raised
                   /\ probe.res.acos_arg # NoCosine
                   /\ InUnitInterval(probe.res.acos_arg)

C8_Witness ==
    /\ probe.stage = "out"
    /\ probe.v1 = <<0, 0, 0>>
    /\ probe.v2 # <<0, 0, 0>>
    /\ probe.res.ret = ZeroDegrees

-----------------------------------------------------------------------------
(* Properties of analyze_implant and of the operators (Spec).              *)

\* The arguments of a log entry.
PlannedBase(e) == e.args[1]
PlannedApex(e) == e.args[2]
RealBase(e) == e.args[3]
RealApex(e) == e.args[4]
PlannedTop(e) == e.args[5]
PlannedBottom(e) == e.args[6]

\* C1: between operator calls no object the engine created is left in the
\* scene: every analyze_implant call removed what it created, on every exit
\* path.
C1_NoEngineObjectLeft == scene.objects = {}

\* C2: an analyze_implant call with a zero-height planned or real implant
\* returns an InvalidGeometry failure, never an ordinary report.
C2_ZeroHeightIsInvalidGeometry ==
    \A e \in log :
        (PlannedBase(e) = PlannedApex(e) \/ RealBase(e) = RealApex(e))
            => e.kind = "InvalidGeometry"

\* C4: a boolean step that fails raises nothing out of the operator, and a
\* boolean step that leaves an open (non-manifold) mesh counts as overlap
\* volume 0 in the report.
C4_BooleanFailureGivesZero ==
    /\ last.exception # "RuntimeError"
    /\ \A e \in log : e.trace.boolean = "open" => e.ret.overlap_vol = 0

\* Whether the markers of a property group trip the minimum-distance check.
TooClose(props) ==
    /\ AllSelected(props)
    /\ \/ VeryClose(props.planned_base, props.planned_apex)
       \/ VeryClose(props.real_base, props.real_apex)

\* C5: in each of the three Run operators, markers closer than min_distance
\* give a warning only: the operator, unless an exception ended it, has
\* written the report of analyze_implant to the result of that implant.
C5_CloseMarkersOnlyWarn ==
    /\ (last.op = "run_single_implant" /\ last.exception = "none" /\ TooClose(single))
            => single.result.kind = "report"
    /\ (last.op = "run_single_implant_slot" /\ last.exception = "none")
            => \A i \in last.wrote : TooClose(slots[i]) => slots[i].result.kind = "report"
    /\ (last.op = "run_multiple_implants" /\ last.exception = "none")
            => \A i \in 1..Len(slots) :
                   TooClose(slots[i]) => slots[i].result.kind = "report"

\* C6: the report analyze_implant returns depends on its eight arguments
\* only: two calls with the same arguments return the same report, whatever
\* earlier calls left in the scene and wherever the slot stands in a batch.
C6_ReportDependsOnArgumentsOnly ==
    \A e1 \in log : \A e2 \in log :
        e1.args = e2.args => e1.kind = e2.kind /\ e1.ret = e2.ret

\* The same arguments analysed with overlapping cones in two scenes, one of
\* them holding the cones of an implant with other arguments.
C6_Witness ==
    \E e1 \in log : \E e2 \in log : \E e3 \in log :
        /\ e1.args = e2.args
        /\ e1.before # e2.before
        /\ e1.ret.overlap_vol > 0
        /\ e3.args # e1.args
        /\ e3.trace.real_built
        /\ e2.before # {}

\* plannedVolume > 0 as the specification words it: the planned height is
\* not zero and the planned radii are not both zero.
PlannedVolumePositive(e) ==
    /\ PlannedBase(e) # PlannedApex(e)
    /\ ~(PlannedTop(e) = 0 /\ PlannedBottom(e) = 0)

\* frustumVolume(rPlannedTop, rPlannedBottom, distance(plannedBase, plannedApex))
PlannedVolume(e) ==
    [q |-> PlannedTop(e) * PlannedTop(e) + PlannedTop(e) * PlannedBottom(e)
           + PlannedBottom(e) * PlannedBottom(e),
     hSq |-> NormSq(vector_components(PlannedBase(e), PlannedApex(e)))]

\* C7: overlap_pct is 100 * overlap_vol / planned_vol when planned_vol > 0
\* and 0 otherwise, planned_vol being the frustum volume of the planned
\* radii and the planned base-to-apex distance; no call divides by zero.
C7_PercentageGuarded ==
    \A e \in log :
        /\ ~e.trace.by_zero
        /\ e.trace.divided = PlannedVolumePositive(e)
        /\ e.ret.overlap_pct =
               IF PlannedVolumePositive(e)
               THEN Quotient(100 * e.ret.overlap_vol, PlannedVolume(e))
               ELSE ZeroPercent

\* One call with planned radii both zero and a planned height, one with a
\* positive planned volume and a positive overlap.
C7_Witness ==
    \E e1 \in log : \E e2 \in log :
        /\ PlannedBase(e1) # PlannedApex(e1)
        /\ PlannedTop(e1) = 0 /\ PlannedBottom(e1) = 0
        /\ e1.ret.overlap_pct = ZeroPercent
        /\ PlannedVolumePositive(e2)
        /\ e2.ret.overlap_vol > 0
        /\ e2.ret.overlap_pct.num = 100 * e2.ret.overlap_vol

\* C10: RunSingleImplantSlot with an implant_index outside 0..len-1
\* (negative ones included) is cancelled with an error and assigns no result.
C10_BadIndexIsCancelled ==
    (last.op = "run_single_implant_slot"
        /\ (last.index < 0 \/ last.index >= last.len))
        => /\ last.ret = "CANCELLED"
           /\ \E r \in last.reports : r[1] = "ERROR"
           /\ last.wrote = {}

-----------------------------------------------------------------------------
(* Properties of boolean_intersection_volume (SpecBoolean).                *)

\* Object name is in scene sc as it was in scene before: same mesh datablock
\* with the same content, same modifiers, same transform.
SameObject(sc, before, name) ==
    /\ name \in Names(sc)
    /\ Lookup(sc, name) = Lookup(before, name)

\* C11: boolean_intersection_volume leaves obj_a and obj_b as they were (mesh
\* data, modifiers, membership of the scene), and when it returns normally
\* the scene holds no a_copy, b_copy or bool_obj: the objects are those of
\* before the call.
C11_InputsUnchangedTemporariesRemoved ==
    probe.stage = "out"
        => /\ SameObject(scene, probe.before, probe.obj_a)
           /\ SameObject(scene, probe.before, probe.obj_b)
           /\ ~probe.res.raised => Names(scene) = Names(probe.before)

\* A call on two different cones that overlap, which applied the modifier
\* and returned a volume.
C11_Witness ==
    /\ probe.stage = "out"
    /\ probe.obj_a # probe.obj_b
    /\ ~probe.res.raised
    /\ probe.res.volume > 0
    /\ Cardinality(Names(scene)) = 3
    /\ Lookup(scene, probe.obj_a).data.applied = << >>

====
